---- MODULE Spec2Model ----
(***************************************************************************)
(* Model of validation_code/ColorDistributionTest.py: the constructor of  *)
(* ColorDistributionTest, the colour loop of run_validation_test and the  *)
(* pure function color_distribution.                                      *)
(*                                                                         *)
(* Conventions                                                             *)
(*  - A float magnitude is a fixed-point integer in tenths: Mag(x) is the  *)
(*    magnitude x.  A quotient is a record [num, den]; 0/0 is numpy's nan. *)
(*  - Python None is the empty tuple, a present optional value v is <<v>>. *)
(*  - A colour string "g-r" is the tuple of its characters <<"g","-","r">>.*)
(*  - Python indices are 0-based, the model's are 1-based.                 *)
(*  - Comparisons follow Python 2, the interpreter the module is written   *)
(*    for (from __future__ imports, float slice bound at line 349).        *)
(***************************************************************************)
EXTENDS Integers, Sequences, FiniteSets, TLC

VARIABLES
    args,       \* the constructor call: [test_q, plot_pdf_q, kwargs]
    raised,     \* "pending", or how __init__ ended: "none", "ValueError", "KeyError"
    self,       \* the ColorDistributionTest object
    catalog,    \* galaxy_catalog: [quantities, data]
    bin_args,   \* bin_args of a direct color_distribution call
    ret,        \* what color_distribution returned, with its locals
    pc,         \* "idle", "loop" (in the colour loop), "done" (returned)
    index,      \* loop index of run_validation_test (1-based)
    no_cdf_q,   \* local of run_validation_test
    no_pdf_q,   \* local of run_validation_test
    summary,    \* lines of summary.txt, oldest first
    log,        \* lines of log.txt, oldest first
    queries,    \* the get_quantities calls made so far, oldest first
    result,     \* "none", or the TestResult of run_validation_test
    iters       \* locals at the end of each loop iteration, oldest first

vars == <<args, raised, self, catalog, bin_args, ret, pc, index, no_cdf_q,
          no_pdf_q, summary, log, queries, result, iters>>

----------------------------------------------------------------------------
(* Bounds of the model *)

MaxGal == 2         \* galaxies in an enumerated catalog (color_distribution)
MaxCount == 5       \* largest third entry of an enumerated bin_args
MaxColors == 2      \* colours in a configured list (run_validation_test)
MaxRunGal == 1      \* galaxies in an enumerated catalog (run_validation_test)

----------------------------------------------------------------------------
(* Values *)

None == <<>>
Some(v) == <<v>>

Mag(x) == x * 10

Color(a, b) == <<a, "-", b>>

Bands == {"g", "r", "i"}

Translate == [b \in Bands |-> "mag_" \o b]

Names == {Translate[b] : b \in Bands}

RECURSIVE SumRange(_, _, _)
\* the sum of a[lo..hi], halving the range as numpy's pairwise summation does
SumRange(a, lo, hi) ==
    IF lo > hi THEN 0
    ELSE IF lo = hi THEN a[lo]
    ELSE LET mid == (lo + hi) \div 2
         IN  SumRange(a, lo, mid) + SumRange(a, mid + 1, hi)

\* np.sum(a) of an integer array
Sum(a) == SumRange(a, 1, Cardinality(DOMAIN a))

\* Python len() of an array or of a dict
PyLen(a) == Cardinality(DOMAIN a)

\* Python 2 ordering x < y for a number x and an optional number y:
\* None sorts before every number, so x < None is False.
Less(x, y) == IF y = None THEN FALSE ELSE x < y[1]

----------------------------------------------------------------------------
(* galaxy_catalog *)

\* galaxy_catalog.get_quantities(name, {'zlo':..., 'zhi':...}): the array of the
\* galaxies of the redshift window, in catalog order.
GetQuantities(galaxy_catalog, name) == galaxy_catalog.data[name]

----------------------------------------------------------------------------
(* color_distribution *)

NoRedshiftMsg == "No object in the redshift range!\n"
NoMagnitudeMsg == "No object in the magnitude range!\n"

MaskInclusive(o, mag1, mag2, mag_lim) ==
    IF o.limiting_band # None
    THEN [i \in DOMAIN mag1 |->
            /\ Less(mag_lim[i], o.limiting_mag)
            /\ mag1[i] > Mag(0) /\ mag1[i] <= Mag(50)
            /\ mag2[i] > Mag(0) /\ mag2[i] < Mag(50)]
    ELSE [i \in DOMAIN mag1 |->
            /\ mag1[i] > Mag(0) /\ mag1[i] <= Mag(50)
            /\ mag2[i] > Mag(0) /\ mag2[i] < Mag(50)]

\* lines 320-330: the boolean mask; the limiting cut is taken whenever
\* self.limiting_band is set, whatever self.limiting_mag is
BuildMask(o, mag1, mag2, mag_lim) ==
    IF o.limiting_band # None
    THEN [i \in DOMAIN mag1 |->
            /\ Less(mag_lim[i], o.limiting_mag)
            /\ mag1[i] > Mag(0) /\ mag1[i] < Mag(50)
            /\ mag2[i] > Mag(0) /\ mag2[i] < Mag(50)]
    ELSE [i \in DOMAIN mag1 |->
            /\ mag1[i] > Mag(0) /\ mag1[i] < Mag(50)
            /\ mag2[i] > Mag(0) /\ mag2[i] < Mag(50)]

RECURSIVE Take(_, _, _)
\* a[mask] over the first n entries: boolean-mask indexing keeps the entries
\* whose mask is True, in order
Take(a, mask, n) ==
    IF n = 0 THEN <<>>
    ELSE IF mask[n] THEN Append(Take(a, mask, n - 1), a[n])
         ELSE Take(a, mask, n - 1)

BoolMask(a, mask) == Take(a, mask, Len(a))

\* np.sum(mask)
CountTrue(mask) == Cardinality({i \in DOMAIN mask : mask[i]})

\* np.linspace(lo, hi, num): num points from lo to hi inclusive, as quotients
\* of tenths over num - 1
Linspace(b) ==
    [k \in 1..b[3] |->
        [num |-> Mag(b[1]) * (b[3] - 1) + (k - 1) * Mag(b[2] - b[1]),
         den |-> b[3] - 1]]

\* np.histogram(a, bins=edges)[0]: bin k holds edges[k] <= v < edges[k+1],
\* the last bin also holds v = edges[-1]
Histogram(a, edges) ==
    LET nb == PyLen(edges) - 1
        Ge(v, e) == v * e.den >= e.num
        Lt(v, e) == v * e.den < e.num
        Le(v, e) == v * e.den <= e.num
        In(v, k) == /\ Ge(v, edges[k])
                    /\ IF k = nb THEN Le(v, edges[k + 1]) ELSE Lt(v, edges[k + 1])
    IN  [k \in 1..nb |-> Cardinality({i \in DOMAIN a : In(a[i], k)})]

\* hist/np.sum(hist) under true division: 0/0 is nan
Normalize(counts) ==
    LET total == Sum(counts)
    IN  [k \in DOMAIN counts |-> [num |-> counts[k], den |-> total]]

\* (bins[1:] + bins[:Nbins])/2.0 with Nbins = len(bins) - 1
BinCenters(bins) ==
    [k \in 1..(PyLen(bins) - 1) |->
        [num |-> bins[k + 1].num + bins[k].num, den |-> 2 * bins[k].den]]

NoDataLogDropped(msg) == <<>>

\* lines 312-317 and 335-340: the message is appended to log.txt
NoDataLog(msg) == <<msg>>

\* lines 308-341 of color_distribution: the retrieval, the mask and the two
\* no-data returns; none says that (None, None) is returned here
FilterMagnitudes(o, galaxy_catalog) ==
    LET mag1_in == GetQuantities(galaxy_catalog, o.band1[1])
        mag2_in == GetQuantities(galaxy_catalog, o.band2[1])
        uselim == o.limiting_band # None
        limiting_band_name == o.translate[o.limiting_band[1]]
        mag_lim == IF uselim THEN GetQuantities(galaxy_catalog, limiting_band_name)
                   ELSE <<>>
        mask == BuildMask(o, mag1_in, mag2_in, mag_lim)
        q2 == <<o.band1[1], o.band2[1]>>
        q3 == IF uselim THEN Append(q2, limiting_band_name) ELSE q2
    IN  IF Len(mag1_in) = 0
        THEN [none |-> TRUE, log |-> NoDataLog(NoRedshiftMsg), queries |-> q2,
              mag1_in |-> mag1_in, mag2_in |-> mag2_in, mag_lim |-> <<>>,
              mask |-> <<>>, mag1 |-> <<>>, mag2 |-> <<>>]
        ELSE [none |-> CountTrue(mask) = 0,
              log |-> IF CountTrue(mask) = 0 THEN NoDataLog(NoMagnitudeMsg) ELSE <<>>,
              queries |-> q3,
              mag1_in |-> mag1_in, mag2_in |-> mag2_in, mag_lim |-> mag_lim,
              mask |-> mask,
              mag1 |-> BoolMask(mag1_in, mask),
              mag2 |-> BoolMask(mag2_in, mask)]

\* lines 344-351 of color_distribution: the histogram of mag1 - mag2
BinColor(mag1, mag2, b) ==
    LET color == [i \in DOMAIN mag1 |-> mag1[i] - mag2[i]]
        bins == Linspace(b)
    IN  [color |-> color, bins |-> bins,
         hist |-> Normalize(Histogram(color, bins)),
         binctr |-> BinCenters(bins)]

\* color_distribution(self, galaxy_catalog, bin_args, base_output_dir): the
\* returned (binctr, hist), with the locals of the call
ColorDistribution(o, galaxy_catalog, b) ==
    LET f == FilterMagnitudes(o, galaxy_catalog)
        h == BinColor(f.mag1, f.mag2, b)
    IN  [none |-> f.none, log |-> f.log, queries |-> f.queries,
         mag1_in |-> f.mag1_in, mag2_in |-> f.mag2_in, mag_lim |-> f.mag_lim,
         mask |-> f.mask, mag1 |-> f.mag1, mag2 |-> f.mag2,
         color |-> IF f.none THEN <<>> ELSE h.color,
         bins |-> IF f.none THEN <<>> ELSE h.bins,
         hist |-> IF f.none THEN None ELSE h.hist,
         binctr |-> IF f.none THEN None ELSE h.binctr]

----------------------------------------------------------------------------
(* __init__ *)

Keys == {"data_dir", "data_name", "colors", "color_bin_args", "limiting_band",
         "limiting_mag", "zlo", "zhi", "translate"}

\* the object before __init__ has returned
Unbuilt == [built |-> FALSE]

\* ColorDistributionTest.__init__(self, test_q, plot_pdf_q, **kwargs): the
\* checks in source order; the first that fails decides the exception.
\* kwargs[k] of an absent key raises KeyError.
NewTest(test_q, plot_pdf_q, kw) ==
    LET has(k) == k \in kw.present
        badColor == \E i \in DOMAIN kw.colors :
                        Len(kw.colors[i]) # 3 \/ kw.colors[i][2] # "-"
        badBins == \/ Len(kw.color_bin_args) # Len(kw.colors)
                   \/ \E i \in DOMAIN kw.color_bin_args :
                         Len(kw.color_bin_args[i]) # 3
        fail(e) == [raised |-> e, self |-> Unbuilt]
        object ==
            [built |-> TRUE,
             _data_dir |-> kw.data_dir,
             _data_name |-> kw.data_name,
             colors |-> kw.colors,
             color_bin_args |-> IF has("color_bin_args")
                                THEN Some(kw.color_bin_args) ELSE None,
             limiting_band |-> IF has("limiting_band")
                               THEN Some(kw.limiting_band) ELSE None,
             limiting_mag |-> IF has("limiting_mag")
                              THEN Some(kw.limiting_mag) ELSE None,
             zlo_mock |-> IF test_q THEN 0 ELSE kw.zlo,
             zhi_mock |-> IF test_q THEN 1 ELSE kw.zhi,
             zlo_obs |-> kw.zlo,
             zhi_obs |-> kw.zhi,
             translate |-> kw.translate,
             plot_pdf_q |-> plot_pdf_q,
             band1 |-> None,
             band2 |-> None,
             validation_data |-> None]
    IN  IF ~has("data_dir") \/ ~has("data_name") THEN fail("KeyError")
        ELSE IF ~has("colors") THEN fail("ValueError")
        ELSE IF badColor THEN fail("ValueError")
        ELSE IF has("color_bin_args") /\ badBins THEN fail("ValueError")
        ELSE IF ~has("color_bin_args") /\ plot_pdf_q THEN fail("ValueError")
        ELSE IF test_q /\ (~has("zlo") \/ ~has("zhi")) THEN fail("KeyError")
        ELSE IF ~test_q /\ ~has("zlo") THEN fail("ValueError")
        ELSE IF ~test_q /\ ~has("zhi") THEN fail("ValueError")
        ELSE IF ~has("translate") THEN fail("ValueError")
        ELSE [raised |-> "none", self |-> object]

\* the idle values of the variables a specification does not use
IdleCatalog == [quantities |-> {}, data |-> [n \in Names |-> <<>>]]
IdleRet == [none |-> TRUE]
IdleBins == <<0, 1, 2>>

\* the values of the keyword arguments a caller passes
ColorLists == {<<Color("g", "r")>>,
               <<Color("g", "r"), Color("r", "i")>>,
               <<<<"g", "r">>>>,
               <<Color("g", "r"), <<"r", "+", "i">>>>}
BinLists == {<< <<-1, 4, 3>> >>,
             << <<-1, 4, 3>>, <<0, 2, 3>> >>,
             << <<-1, 4>> >>}

Kwargs(present, colors, bins, lim) ==
    [present |-> present, data_dir |-> "SDSS", data_name |-> "SDSS",
     colors |-> colors, color_bin_args |-> bins, limiting_band |-> lim,
     limiting_mag |-> Mag(25), zlo |-> 0, zhi |-> 1, translate |-> Translate]

InitCtor ==
    /\ \E present \in SUBSET Keys, colors \in ColorLists, bins \in BinLists,
          tq \in BOOLEAN, pq \in BOOLEAN :
          args = [test_q |-> tq, plot_pdf_q |-> pq,
                  kwargs |-> Kwargs(present, colors, bins, "r")]
    /\ raised = "pending"
    /\ self = Unbuilt
    /\ catalog = IdleCatalog
    /\ bin_args = IdleBins
    /\ ret = IdleRet
    /\ pc = "idle"
    /\ index = 1
    /\ no_cdf_q = TRUE
    /\ no_pdf_q = TRUE
    /\ summary = <<>>
    /\ log = <<>>
    /\ queries = <<>>
    /\ result = "none"
    /\ iters = <<>>

\* the constructor call
Construct ==
    /\ raised = "pending"
    /\ LET r == NewTest(args.test_q, args.plot_pdf_q, args.kwargs)
       IN  /\ raised' = r.raised
           /\ self' = r.self
    /\ UNCHANGED <<args, catalog, bin_args, ret, pc, index, no_cdf_q, no_pdf_q,
                   summary, log, queries, result, iters>>

NextCtor == Construct

SpecCtor == InitCtor /\ [][NextCtor]_vars

----------------------------------------------------------------------------
(* color_distribution called on its own *)

\* the options every call of this section passes
Required == {"data_dir", "data_name", "colors", "zlo", "zhi", "translate"}

\* a galaxy of an enumerated catalog: its magnitude in each quantity
Galaxies ==
    {[n \in Names |-> IF n = "mag_g" THEN g ELSE IF n = "mag_r" THEN r ELSE i] :
        g \in {Mag(0), Mag(2), Mag(50)},
        r \in {Mag(0), Mag(2), Mag(9), Mag(50)},
        i \in {Mag(1), Mag(49)}}

\* the catalog that holds the galaxies gal, co-indexed in every quantity
CatalogOf(gal, quantities) ==
    [quantities |-> quantities,
     data |-> [n \in Names |-> [k \in DOMAIN gal |-> gal[k][n]]]]

\* mag1 = [1, 2, 3, 50, -1], mag2 = [0.5, 1, 2, 0.4, 0.2]
ScenarioA ==
    [quantities |-> Names,
     data |-> [n \in Names |->
                 IF n = "mag_g" THEN <<10, 20, 30, 500, -10>>
                 ELSE IF n = "mag_r" THEN <<5, 10, 20, 4, 2>>
                 ELSE <<10, 10, 10, 10, 10>>]]

CDCatalogs ==
    {ScenarioA} \cup
    UNION {{CatalogOf(gal, Names) : gal \in [1..n -> Galaxies]} : n \in 0..MaxGal}

CDBinArgs == {<<-1, 4, c>> : c \in 2..MaxCount}

InitCD ==
    /\ \E lim \in SUBSET {"limiting_band", "limiting_mag"} :
          /\ args = [test_q |-> FALSE, plot_pdf_q |-> FALSE,
                     kwargs |-> Kwargs(Required \cup lim, <<Color("g", "r")>>,
                                       <<>>, "i")]
          /\ self = [NewTest(FALSE, FALSE, args.kwargs).self
                       EXCEPT !.band1 = Some(Translate["g"]),
                              !.band2 = Some(Translate["r"])]
    /\ raised = "none"
    /\ catalog \in CDCatalogs
    /\ bin_args \in CDBinArgs
    /\ ret = IdleRet
    /\ pc = "call"
    /\ index = 1
    /\ no_cdf_q = TRUE
    /\ no_pdf_q = TRUE
    /\ summary = <<>>
    /\ log = <<>>
    /\ queries = <<>>
    /\ result = "none"
    /\ iters = <<>>

\* one call self.color_distribution(galaxy_catalog, bin_args, base_output_dir)
CallColorDistribution ==
    /\ pc = "call"
    /\ LET r == ColorDistribution(self, catalog, bin_args)
       IN  /\ ret' = r
           /\ log' = log \o r.log
           /\ queries' = queries \o r.queries
    /\ pc' = "returned"
    /\ UNCHANGED <<args, raised, self, catalog, bin_args, index, no_cdf_q,
                   no_pdf_q, summary, result, iters>>

NextCD == CallColorDistribution

SpecCD == InitCD /\ [][NextCD]_vars

\* the indices the mask selects, and the j-th of them
Kept(mask) == {i \in DOMAIN mask : mask[i]}
KeptAt(mask, j) ==
    CHOOSE i \in Kept(mask) : Cardinality({x \in Kept(mask) : x <= i}) = j

\* 0 < m < 50, both bounds strict
Physical(m) == m > Mag(0) /\ m < Mag(50)

\* C5: after color_distribution has filtered, mag1 and mag2 have the same
\* length, the number of True mask entries; entry j of both is the galaxy of
\* the j-th True mask entry; every selected galaxy has 0 < mag1 < 50 and
\* 0 < mag2 < 50, and with a limiting band also mag_lim < limiting_mag;
\* without a limiting band exactly the galaxies with physical magnitudes are
\* selected.
C5_FilterKeepsPairs ==
    (pc = "returned" /\ Len(ret.mag1_in) > 0) =>
        /\ Len(ret.mag1) = CountTrue(ret.mask)
        /\ Len(ret.mag2) = CountTrue(ret.mask)
        /\ \A j \in 1..Len(ret.mag1) :
              /\ ret.mag1[j] = ret.mag1_in[KeptAt(ret.mask, j)]
              /\ ret.mag2[j] = ret.mag2_in[KeptAt(ret.mask, j)]
        /\ \A i \in Kept(ret.mask) :
              /\ Physical(ret.mag1_in[i])
              /\ Physical(ret.mag2_in[i])
              /\ self.limiting_band # None =>
                    /\ self.limiting_mag # None
                    /\ ret.mag_lim[i] < self.limiting_mag[1]
        /\ self.limiting_band = None =>
              \A i \in DOMAIN ret.mag1_in :
                 ret.mask[i] <=> (Physical(ret.mag1_in[i]) /\ Physical(ret.mag2_in[i]))

\* the example of C5 has been filtered: indices 0, 1, 2 kept, colour [0.5, 1, 1]
C5_Witness ==
    /\ pc = "returned"
    /\ catalog = ScenarioA
    /\ self.limiting_band = None
    /\ Kept(ret.mask) = {1, 2, 3}
    /\ ret.color = <<5, 10, 10>>

\* C6: a returned histogram of bin_args (lo, hi, count) has count + 1 edges
\* from lo to hi, count bin centres and count values.
C6_CountBins ==
    (pc = "returned" /\ ~ret.none) =>
        /\ PyLen(ret.bins) = bin_args[3] + 1
        /\ PyLen(ret.binctr) = bin_args[3]
        /\ PyLen(ret.hist) = bin_args[3]

\* C7: a returned histogram sums to 1: the count it is divided by is not 0.
C7_SumsToOne ==
    (pc = "returned" /\ ~ret.none) =>
        /\ \A k \in DOMAIN ret.hist : ret.hist[k].den # 0
        /\ Sum([k \in DOMAIN ret.hist |-> ret.hist[k].num]) = ret.hist[1].den

\* C10: mag_lim is retrieved and cut on exactly when limiting_band and
\* limiting_mag are both configured; otherwise the mask is the plain validity
\* mask.
C10_CutNeedsBoth ==
    (pc = "returned" /\ Len(ret.mag1_in) > 0) =>
        LET both == self.limiting_band # None /\ self.limiting_mag # None
        IN  /\ both <=> (Len(ret.queries) = 3)
            /\ ~both =>
                  \A i \in DOMAIN ret.mag1_in :
                     ret.mask[i] <=>
                        (Physical(ret.mag1_in[i]) /\ Physical(ret.mag2_in[i]))

----------------------------------------------------------------------------
(* run_validation_test *)

\* the bin_args of the CDF pass, line 202
CDFBinArgs == <<-1, 4, 2000>>

\* line 173: the name of the reference file of a colour, without the data
\* name and the redshift window, which are the same for every colour
LoadValidationData(color) == color[1] \o "-" \o color[3] \o "_pdf.txt"

\* line 191: the warning of a colour whose band the catalog lacks (the
\* quotes around the two names are left out)
MissingMsg(band1, band2) ==
    "galaxy catalog does not have " \o band1 \o " and/or " \o band2
    \o " quantity, skipping the rest of the validation test.\n"

\* lines 166-186: self at the top of the loop body for colors[index]
AtColor(o, i) ==
    [o EXCEPT !.band1 = Some(o.translate[o.colors[i][1]]),
              !.band2 = Some(o.translate[o.colors[i][3]]),
              !.validation_data = Some(LoadValidationData(o.colors[i]))]

HasAnyBand(o, galaxy_catalog) ==
    \E k \in {o.band1[1], o.band2[1]} : k \in galaxy_catalog.quantities

\* line 189: all(k in galaxy_catalog.quantities for k in (self.band1, self.band2))
HasBands(o, galaxy_catalog) ==
    \A k \in {o.band1[1], o.band2[1]} : k \in galaxy_catalog.quantities

\* lines 229, 234, 241: X*np.sqrt(len(d1)), kept as the raw value and the
\* number under the root
Rescale(raw, d1) == [raw |-> raw, scale2 |-> PyLen(d1)]

Line(color, status, name, value) ==
    [color |-> color, status |-> status, name |-> name, value |-> value]

\* lines 243-258: the lines written to summary.txt for one colour
SummaryLines(color, L2, L2_success, L1, L1_success, KS, KS_success) ==
    << IF L2_success THEN Line(color, "SUCCESS", "L2Diff", L2)
       ELSE Line(color, "FAILED", "L2Diff", L2),
       IF L1_success THEN Line(color, "SUCCESS", "L1Diff", L1)
       ELSE Line(color, "FAILED", "L1Diff", L2),
       IF KS_success THEN Line(color, "SUCCESS", "K-S", KS)
       ELSE Line(color, "FAILED", "K-S", KS) >>

OutcomeInverted(no_cdf) == IF no_cdf THEN "PASSED" ELSE "FAILED"

\* line 295: 'PASSED' if not no_cdf_q else 'FAILED'
Outcome(no_cdf) == IF ~no_cdf THEN "PASSED" ELSE "FAILED"

\* what L2Diff, L1Diff and KS_test may return: the raw values and the flags
StatRaws == {<<1, 2, 3>>}
StatFlags == [1..3 -> BOOLEAN]

\* the galaxies, colours and options of the enumerated runs
RunGalaxies ==
    {[n \in Names |-> IF n = "mag_g" THEN g ELSE IF n = "mag_r" THEN r ELSE i] :
        g \in {Mag(0), Mag(2)},
        r \in {Mag(2), Mag(30)},
        i \in {Mag(2)}}

RunCatalogs ==
    UNION {{CatalogOf(gal, q) : gal \in [1..n -> RunGalaxies],
                                q \in {x \in SUBSET Names : "mag_r" \in x}} :
           n \in 0..MaxRunGal}

RunColors ==
    UNION {[1..n -> {Color("g", "r"), Color("r", "i")}] : n \in 1..MaxColors}

PdfBinArgs == <<-1, 4, 3>>

InitRun ==
    /\ \E lim \in {{}, {"limiting_band"}, {"limiting_band", "limiting_mag"}},
          colors \in RunColors, pq \in BOOLEAN :
          /\ args = [test_q |-> FALSE, plot_pdf_q |-> pq,
                     kwargs |-> Kwargs(Required \cup lim \cup {"color_bin_args"},
                                       colors,
                                       [i \in DOMAIN colors |-> PdfBinArgs],
                                       "r")]
          /\ self = NewTest(FALSE, pq, args.kwargs).self
    /\ raised = "none"
    /\ catalog \in RunCatalogs
    /\ bin_args = IdleBins
    /\ ret = IdleRet
    /\ pc = "loop"
    /\ index = 1
    /\ no_cdf_q = TRUE
    /\ no_pdf_q = TRUE
    /\ summary = <<>>
    /\ log = <<>>
    /\ queries = <<>>
    /\ result = "none"
    /\ iters = <<>>

\* the get_quantities calls of one color_distribution call, tagged with the
\* loop index
Tagged(i, names) == [k \in DOMAIN names |-> [index |-> i, name |-> names[k]]]

\* lines 189-197: the catalog lacks a band of the colour: warn, log, continue
MissingBand ==
    /\ pc = "loop"
    /\ index <= Len(self.colors)
    /\ LET o == AtColor(self, index)
       IN  /\ ~HasBands(o, catalog)
           /\ self' = o
           /\ log' = Append(log, MissingMsg(o.band1[1], o.band2[1]))
           /\ iters' = Append(iters, [index |-> index, kind |-> "missing"])
    /\ index' = index + 1
    /\ UNCHANGED <<args, raised, catalog, bin_args, ret, pc, no_cdf_q, no_pdf_q,
                   summary, queries, result>>

\* lines 202-204: the CDF pass got (None, None): return SKIPPED.  Whether
\* color_distribution returns (None, None) is decided by lines 308-341 alone.
NoData ==
    /\ pc = "loop"
    /\ index <= Len(self.colors)
    /\ LET o == AtColor(self, index)
           cd == FilterMagnitudes(o, catalog)
       IN  /\ HasBands(o, catalog)
           /\ cd.none
           /\ self' = o
           /\ log' = log \o cd.log
           /\ queries' = queries \o Tagged(index, cd.queries)
           /\ iters' = Append(iters, [index |-> index, kind |-> "nodata"])
    /\ result' = "SKIPPED"
    /\ pc' = "done"
    /\ UNCHANGED <<args, raised, catalog, bin_args, ret, index, no_cdf_q,
                   no_pdf_q, summary>>

\* lines 202-283: the CDF pass, the three statistics, the summary lines and,
\* with plot_pdf_q, the PDF pass.  The arrays of the CDF pass (mbinctr, mcdf,
\* obinctr, ocdf) reach only the plot and L2Diff, L1Diff and KS_test, whose
\* results are drawn from StatRaws and StatFlags; the dicts d1 and d2 hold
\* them by name.
ColorDone ==
    /\ pc = "loop"
    /\ index <= Len(self.colors)
    /\ LET o == AtColor(self, index)
           color == o.colors[index]
           cd == FilterMagnitudes(o, catalog)
           d1 == [x |-> "mbinctr", y |-> "mcdf"]
           d2 == [x |-> "obinctr", y |-> "ocdf"]
           pdf_args == o.color_bin_args[1][index]
           cd2 == ColorDistribution(o, catalog, pdf_args)
       IN  /\ HasBands(o, catalog)
           /\ ~cd.none
           /\ self' = o
           /\ no_cdf_q' = FALSE
           /\ \E raws \in StatRaws, oks \in StatFlags :
                LET L2 == Rescale(raws[1], d1)
                    L1 == Rescale(raws[2], d1)
                    KS == Rescale(raws[3], d1)
                IN  /\ summary' = summary \o SummaryLines(color, L2, oks[1], L1,
                                                          oks[2], KS, oks[3])
                    /\ iters' = Append(iters,
                          [index |-> index, kind |-> "cdf", color |-> color,
                           L2 |-> L2, L2_success |-> oks[1],
                           L1 |-> L1, L1_success |-> oks[2],
                           KS |-> KS, KS_success |-> oks[3]])
           /\ IF ~o.plot_pdf_q
              THEN /\ queries' = queries \o Tagged(index, cd.queries)
                   /\ index' = index + 1
                   /\ UNCHANGED <<log, no_pdf_q, result, pc>>
              ELSE /\ queries' = queries \o Tagged(index, cd.queries)
                                        \o Tagged(index, cd2.queries)
                   /\ log' = log \o cd2.log
                   /\ IF cd2.none
                      THEN /\ result' = "SKIPPED"
                           /\ pc' = "done"
                           /\ UNCHANGED <<index, no_pdf_q>>
                      ELSE /\ no_pdf_q' = FALSE
                           /\ index' = index + 1
                           /\ UNCHANGED <<result, pc>>
    /\ UNCHANGED <<args, raised, catalog, bin_args, ret>>

\* lines 285-295: the loop is over: return PASSED or FAILED
Finish ==
    /\ pc = "loop"
    /\ index > Len(self.colors)
    /\ result' = Outcome(no_cdf_q)
    /\ pc' = "done"
    /\ UNCHANGED <<args, raised, self, catalog, bin_args, ret, index, no_cdf_q,
                   no_pdf_q, summary, log, queries, iters>>

Next == MissingBand \/ NoData \/ ColorDone \/ Finish

Spec == InitRun /\ [][Next]_vars

----------------------------------------------------------------------------
(* Properties of run_validation_test *)

Outcomes == {"PASSED", "FAILED", "SKIPPED"}
NoDataMsgs == {NoRedshiftMsg, NoMagnitudeMsg}

\* a no-data condition has been logged
Signalled == \E i \in DOMAIN log : log[i] \in NoDataMsgs

\* some colour has produced a catalog histogram in the CDF pass
Produced == \E i \in DOMAIN iters : iters[i].kind = "cdf"

\* the catalog declares both bands of colors[i]
Declared(i) ==
    /\ self.translate[self.colors[i][1]] \in catalog.quantities
    /\ self.translate[self.colors[i][3]] \in catalog.quantities

\* color_distribution signals a no-data condition for colors[i]
NoDataAt(i) == FilterMagnitudes(AtColor(self, i), catalog).none

\* C1: the run returns one outcome of PASSED, FAILED, SKIPPED: SKIPPED iff a
\* no-data condition was signalled; otherwise PASSED iff some colour produced
\* a catalog histogram in the CDF pass and FAILED iff none did, as when every
\* colour lacks a band.  The success flags of the statistics play no part.
C1_Outcome ==
    /\ (pc = "done") <=> (result \in Outcomes)
    /\ pc # "done" => result = "none"
    /\ pc = "done" =>
          /\ (result = "SKIPPED") <=> Signalled
          /\ ~Signalled => /\ (result = "PASSED") <=> Produced
                           /\ (result = "FAILED") <=> ~Produced
          /\ (\A i \in DOMAIN self.colors : ~Declared(i)) => result = "FAILED"

\* a run has PASSED although a colour failed all three statistics
C1_Witness ==
    /\ result = "PASSED"
    /\ \E i \in DOMAIN iters :
          /\ iters[i].kind = "cdf"
          /\ ~iters[i].L2_success /\ ~iters[i].L1_success /\ ~iters[i].KS_success

\* C2: when color_distribution signals a no-data condition for colors[index],
\* that step ends the run with SKIPPED, writes no summary line, leaves the
\* earlier summary lines as they are and appends one log entry, the
\* condition's; after the return nothing more happens, so no later colour is
\* queried.
C2_NoDataStopsRun ==
    /\ [][(pc = "loop" /\ index <= Len(self.colors) /\ Declared(index)
             /\ NoDataAt(index))
          => /\ pc' = "done"
             /\ result' = "SKIPPED"
             /\ summary' = summary
             /\ index' = index
             /\ Len(log') = Len(log) + 1
             /\ SubSeq(log', 1, Len(log)) = log
             /\ log'[Len(log')] \in NoDataMsgs]_vars
    /\ [][pc = "done" => UNCHANGED vars]_vars
    /\ [](result = "SKIPPED" =>
            /\ \A q \in DOMAIN queries : queries[q].index <= index
            /\ Len(summary) = 3 * Cardinality({i \in DOMAIN iters :
                                                 iters[i].kind = "cdf"})
            /\ \A i \in DOMAIN iters :
                  iters[i].kind = "cdf" => iters[i].index < index)

\* a run was SKIPPED at a later colour, after an earlier colour was written
C2_Witness ==
    /\ result = "SKIPPED"
    /\ index >= 2
    /\ Len(summary) >= 3
    /\ iters[Len(iters)].kind = "nodata"

\* the outcome the colours with both bands declared decide
RemainingOutcome ==
    LET rem == {i \in DOMAIN self.colors : Declared(i)}
    IN  IF \E i \in rem : NoDataAt(i) THEN "SKIPPED"
        ELSE IF rem # {} THEN "PASSED"
        ELSE "FAILED"

RECURSIVE ClaimedSummary(_)
\* the summary lines C4 describes for the first k loop iterations
ClaimedSummary(k) ==
    IF k = 0 THEN <<>>
    ELSE LET it == iters[k]
             word(ok) == IF ok THEN "SUCCESS" ELSE "FAILED"
         IN  IF it.kind # "cdf" THEN ClaimedSummary(k - 1)
             ELSE ClaimedSummary(k - 1) \o
                  << Line(it.color, word(it.L2_success), "L2Diff", it.L2),
                     Line(it.color, word(it.L1_success), "L1Diff", it.L1),
                     Line(it.color, word(it.KS_success), "K-S", it.KS) >>

\* C4: the summary holds, for every colour that completed the CDF pass and in
\* loop order, three lines L2Diff, L1Diff, K-S, each with the colour, the word
\* for that statistic's flag and that statistic's own rescaled value.
C4_SummaryLines == summary = ClaimedSummary(Len(iters))

\* the number of catalog bins of the CDF pass, N = len(mbinctr)
CdfLen == PyLen(BinCenters(Linspace(CDFBinArgs)))

\* C9: every value of the summary is its raw statistic times the square root
\* of N = len(mbinctr), the same factor for the three statistics.
C9_ScaledByBins ==
    \A i \in DOMAIN summary : summary[i].value.scale2 = CdfLen

----------------------------------------------------------------------------
(* Properties of __init__ *)

\* a configuration C8 calls wrong
BadConfig ==
    LET kw == args.kwargs
        has(k) == k \in kw.present
    IN  \/ ~has("colors") \/ ~has("translate") \/ ~has("zlo") \/ ~has("zhi")
        \/ args.plot_pdf_q /\ ~has("color_bin_args")
        \/ \E i \in DOMAIN kw.colors :
              Len(kw.colors[i]) # 3 \/ kw.colors[i][2] # "-"
        \/ /\ has("color_bin_args")
           /\ \/ Len(kw.color_bin_args) # Len(kw.colors)
              \/ \E i \in DOMAIN kw.color_bin_args : Len(kw.color_bin_args[i]) # 3

\* C8: given data_dir and data_name, the constructor raises ValueError for
\* every wrong configuration, with test_q False or True, and constructs every
\* other one.
C8_ConfigErrors ==
    (raised # "pending" /\ {"data_dir", "data_name"} \subseteq args.kwargs.present)
        => /\ (raised = "ValueError") <=> BadConfig
           /\ ~BadConfig => raised = "none"

====
